---- MODULE Spec2Model ----
(***************************************************************************)
(* State-machine model of consistency_audit_cli.py: the per-correlation-ID *)
(* state-transition audit (build_state_order, read_json_logs,              *)
(* read_text_logs, audit_id_sequence, audit_all_ids, main).                *)
(*                                                                         *)
(* Python values are modelled as follows.                                  *)
(*   Optional[T]      a sequence of length 0 (None) or 1 (the value)       *)
(*   datetime         [t |-> instant, aware |-> has tzinfo]                *)
(*   dict (ordered)   a sequence of [key, events] entries, in insertion    *)
(*                    order                                                *)
(*   LogEvent         [source_file, line_no, timestamp, id_value, state];  *)
(*                    raw_line is carried by the code but read only by the *)
(*                    renderers and is left out                            *)
(*   Inconsistency    [id_value, type, message, events]; the message is    *)
(*                    the tuple of the parts the f-string interpolates     *)
(***************************************************************************)
EXTENDS Integers, Sequences, FiniteSets, TLC

\* ------------------------------------------------------------------ bounds
\* Longest --allowed-order argument, counted in '>'-separated tokens.
MaxOrderLen == 3
\* Most events of one correlation ID handed to audit_id_sequence.
MaxEvents == 3

\* ------------------------------------------------------------------ values
None == <<>>
Some(x) == <<x>>

Range(s) == {s[i] : i \in 1..Len(s)}

\* State labels that may be written in --allowed-order.
Labels == {"NEW", "RUNNING", "DONE"}
\* State labels that log records carry; a label is unknown to an audit whose
\* --allowed-order does not declare it.
EventStates == Labels
\* Correlation IDs that log records carry.
Ids == {"abc", "xyz"}

\* datetime.min: naive, and earlier than every parsed timestamp.
DatetimeMin == [t |-> 0, aware |-> FALSE]
\* Values of LogEvent.timestamp: None, naive datetimes, aware datetimes.
Datetimes == {[t |-> 1, aware |-> FALSE], [t |-> 1, aware |-> TRUE]}
Timestamps == {None} \cup {Some(d) : d \in Datetimes}

\* ------------------------------------------------- build_state_order
\* A token of allowed_order.split(">"): a label, possibly padded, or blank.
Tokens == Labels \cup {"", " ", " NEW"}

\* str.strip() on a token.
Strip(tok) ==
    CASE tok = " " -> ""
      [] tok = " NEW" -> "NEW"
      [] OTHER -> tok

\* [s.strip() for s in allowed_order.split(">") if s.strip()]
RECURSIVE StrippedStates(_)
StrippedStates(toks) ==
    IF toks = <<>> THEN <<>>
    ELSE LET s == Strip(Head(toks))
         IN  (IF s # "" THEN <<s>> ELSE <<>>) \o StrippedStates(Tail(toks))

\* {state: idx for idx, state in enumerate(states)}: a later index replaces
\* an earlier one for the same key.
OrderMapOf(states) ==
    [s \in Range(states) |->
        CHOOSE i \in 0..(Len(states) - 1) :
            /\ states[i + 1] = s
            /\ \A j \in 0..(Len(states) - 1) : states[j + 1] = s => j <= i]

\* ------------------------------------------------------------- state
VARIABLES
    pc,                  \* where the run is: "main", "read", "audit_all_ids",
                         \* "walk" (inside audit_id_sequence), "exit"
    args,                \* the parsed command line (argparse.Namespace)
    paths,               \* expand_files(args.logs): the files, in order
    path_idx,            \* read_*_logs: position in paths
    line_no,             \* read_*_logs: number of the last line read
    consumed,            \* the lines read so far, with file and line number
    stopped_ids,         \* read_json_logs: IDs refused by --max-ids
    order_map,           \* state -> rank, from build_state_order
    ordered_states,      \* the stripped labels, in declaration order
    events_by_id,        \* the Correlation Group: ordered dict id -> events
    id_idx,              \* audit_all_ids: position in events_by_id.items()
    events_sorted,       \* audit_id_sequence: the sorted events of the ID
    ev_idx,              \* audit_id_sequence: position in events_sorted
    last_order_idx,      \* audit_id_sequence: Optional[int]
    last_state,          \* audit_id_sequence: Optional[str]
    inconsistencies,     \* audit_id_sequence: the list being built
    all_inconsistencies, \* audit_all_ids: the list being built
    exit_code,           \* Optional[int]: the process exit status
    stderr               \* what the run wrote to stderr, in order

vars == <<pc, args, paths, path_idx, line_no, consumed, stopped_ids,
          order_map, ordered_states, events_by_id, id_idx, events_sorted,
          ev_idx, last_order_idx, last_state, inconsistencies,
          all_inconsistencies, exit_code, stderr>>

readVars == <<paths, path_idx, line_no, consumed, stopped_ids>>

auditVars == <<events_sorted, ev_idx, last_order_idx, last_state,
               inconsistencies>>

\* ------------------------------------------------------------ bounds
\* Most lines read over all files of one run.
MaxLines == 3

\* --------------------------------------------------- parse_timestamp
\* str(ts_raw) as parse_timestamp sees it: the shape of the text and the
\* instant it denotes.
\*   "T_Z"           2025-11-21T13:05:12Z
\*   "T_offset"      2025-11-21T13:05:12+0100
\*   "space"         2025-11-21 13:05:12
\*   "space_offset"  2025-11-21 13:05:12+0000
\*   "blank"         empty after strip()
\*   "other"         anything else, str(None) included
RawText(fmt, t) == [fmt |-> fmt, t |-> t]

\* str() of a field that obj.get() may have returned as None.
StrOf(ts_raw) == IF ts_raw = None THEN RawText("other", 0) ELSE ts_raw[1]

Naive(t) == Some([t |-> t, aware |-> FALSE])
Aware(t) == Some([t |-> t, aware |-> TRUE])

\* datetime.strptime(raw, fmt), None standing for ValueError.  %z accepts
\* both a numeric offset and the letter Z and yields an aware datetime; a
\* literal Z in the format yields a naive one.
Strptime(raw, fmt) ==
    CASE fmt = "%Y-%m-%dT%H:%M:%S%z" ->
             IF raw.fmt \in {"T_Z", "T_offset"} THEN Aware(raw.t) ELSE None
      [] fmt = "%Y-%m-%dT%H:%M:%SZ" ->
             IF raw.fmt = "T_Z" THEN Naive(raw.t) ELSE None
      [] fmt = "%Y-%m-%d %H:%M:%S" ->
             IF raw.fmt = "space" THEN Naive(raw.t) ELSE None
      [] fmt = "%Y-%m-%d %H:%M:%S%z" ->
             IF raw.fmt = "space_offset" THEN Aware(raw.t) ELSE None

ISO8601_FMT == "%Y-%m-%dT%H:%M:%S%z"
ISO8601_Z_FMT == "%Y-%m-%dT%H:%M:%SZ"

\* The formats "auto" tries, in order.
AutoFormats ==
    <<ISO8601_FMT, ISO8601_Z_FMT, "%Y-%m-%d %H:%M:%S", "%Y-%m-%d %H:%M:%S%z">>

RECURSIVE FirstParse(_, _)
FirstParse(raw, fmts) ==
    IF fmts = <<>> THEN None
    ELSE IF Strptime(raw, Head(fmts)) # None THEN Strptime(raw, Head(fmts))
    ELSE FirstParse(raw, Tail(fmts))

parse_timestamp(raw, mode) ==
    IF raw.fmt = "blank" THEN None
    ELSE IF mode = "iso8601" THEN Strptime(raw, ISO8601_FMT)
    ELSE IF mode = "iso8601_z" THEN Strptime(raw, ISO8601_Z_FMT)
    ELSE FirstParse(raw, AutoFormats)

\* ------------------------------------ read_json_logs, read_text_logs
\* A line of a log file.
\*   kind "garbage"  json.loads raises JSONDecodeError
\*   kind "value"    json.loads returns something that is not a dict
\*   kind "object"   json.loads returns a dict; id, state and ts are what
\*                   obj.get() returns for the three configured fields
\* For --format text, id, state and ts are what the three regexes capture
\* (None: no match); only an "object" line matches any of them.
Line(kind, id, state, ts) ==
    [kind |-> kind, id |-> id, state |-> state, ts |-> ts]

GarbageLine == Line("garbage", None, None, None)
ValueLine == Line("value", None, None, None)

\* The dict operations the readers use.
HasKey(d, k) == \E i \in 1..Len(d) : d[i].key = k
Keys(d) == [i \in 1..Len(d) |-> d[i].key]
\* events_by_id[k] on a defaultdict(list): a missing key is inserted.
GetItem(d, k) ==
    IF HasKey(d, k) THEN d ELSE Append(d, [key |-> k, events |-> <<>>])
EventsOf(d, k) ==
    IF HasKey(d, k) THEN d[CHOOSE i \in 1..Len(d) : d[i].key = k].events
    ELSE <<>>
\* events_by_id[k].append(ev)
AppendEvent(d, k, ev) ==
    [i \in 1..Len(GetItem(d, k)) |->
        IF GetItem(d, k)[i].key = k
        THEN [key |-> k, events |-> Append(GetItem(d, k)[i].events, ev)]
        ELSE GetItem(d, k)[i]]

LogEvent(source_file, n, timestamp, id_value, state) ==
    [source_file |-> source_file, line_no |-> n, timestamp |-> timestamp,
     id_value |-> id_value, state |-> state]

\* Variant: a record without the timestamp field is dropped as well.
MissingFieldOrTimestamp(line) ==
    line.id = None \/ line.state = None \/ line.ts = None

\* if id_value is None or state is None
MissingField(line) == line.id = None \/ line.state = None

\* Variant: the cap admits one ID more.
AtMaxIdsOffByOne(max_ids, d, id_value) ==
    /\ max_ids # None
    /\ ~HasKey(d, id_value)
    /\ Len(d) > max_ids[1]

\* max_ids is not None and id_value not in events_by_id
\*     and len(events_by_id) >= max_ids
AtMaxIds(max_ids, d, id_value) ==
    /\ max_ids # None
    /\ ~HasKey(d, id_value)
    /\ Len(d) >= max_ids[1]

\* Variant: the cap keeps one event more.
AtMaxEventsOffByOne(max_events_per_id, d, id_value) ==
    /\ max_events_per_id # None
    /\ Len(EventsOf(d, id_value)) > max_events_per_id[1]

\* max_events_per_id is not None
\*     and len(events_by_id[id_value]) >= max_events_per_id
AtMaxEvents(max_events_per_id, d, id_value) ==
    /\ max_events_per_id # None
    /\ Len(EventsOf(d, id_value)) >= max_events_per_id[1]

\* The timestamp the JSON reader stores for a line.
JsonTimestamp(line, ts_mode) == parse_timestamp(StrOf(line.ts), ts_mode)

\* The timestamp the text reader stores for a line.
TextTimestamp(line, regex_ts, ts_mode) ==
    IF regex_ts # None /\ line.ts # None
    THEN parse_timestamp(StrOf(line.ts), ts_mode)
    ELSE None

\* for line_no, line in enumerate(f, start=1): one more line of the current
\* file is read.
ReadLine(format, line) ==
    /\ pc = "read"
    /\ args.format = format
    /\ path_idx <= Len(paths)
    /\ Len(consumed) < MaxLines
    /\ line_no' = line_no + 1
    /\ consumed' = Append(consumed, [source_file |-> paths[path_idx],
                                     line_no |-> line_no + 1, line |-> line])
    /\ UNCHANGED <<args, paths, path_idx, order_map, ordered_states, id_idx,
                   all_inconsistencies>>
    /\ UNCHANGED auditVars

\* The iteration ends with continue, or at the end of the loop body.
NextLine == UNCHANGED <<pc, exit_code, stderr>>

\* The current file is exhausted; the reader opens the next one.
EndOfFile ==
    /\ pc = "read"
    /\ path_idx <= Len(paths)
    /\ path_idx' = path_idx + 1
    /\ line_no' = 0
    /\ UNCHANGED <<pc, args, paths, consumed, stopped_ids, order_map,
                   ordered_states, events_by_id, id_idx, all_inconsistencies,
                   exit_code, stderr>>
    /\ UNCHANGED auditVars

\* json.loads raises JSONDecodeError: the line is skipped.
JsonDecodeError(line) ==
    /\ line.kind = "garbage"
    /\ ReadLine("json", line)
    /\ NextLine
    /\ UNCHANGED <<events_by_id, stopped_ids>>

\* json.loads returns a list, number, string, bool or null: obj.get raises
\* AttributeError, nothing catches it, and the process ends with the
\* traceback and status 1.
JsonAttributeError(line) ==
    /\ line.kind = "value"
    /\ ReadLine("json", line)
    /\ pc' = "exit"
    /\ exit_code' = Some(1)
    /\ stderr' = Append(stderr, "Traceback: AttributeError")
    /\ UNCHANGED <<events_by_id, stopped_ids>>

\* The object lacks the id or the state field: the line is skipped.
JsonMissingField(line) ==
    /\ line.kind = "object"
    /\ MissingField(line)
    /\ ReadLine("json", line)
    /\ NextLine
    /\ UNCHANGED <<events_by_id, stopped_ids>>

\* --max-ids is reached and the ID is new: the record is dropped.
JsonStoppedId(line) ==
    /\ line.kind = "object"
    /\ ~MissingField(line)
    /\ AtMaxIds(args.max_ids, events_by_id, line.id[1])
    /\ ReadLine("json", line)
    /\ NextLine
    /\ stopped_ids' = stopped_ids \cup {line.id[1]}
    /\ UNCHANGED events_by_id

\* --max-events-per-id is reached for the ID: the record is dropped.  The
\* length test has looked the ID up in the defaultdict, which inserts it.
JsonOverCap(line) ==
    /\ line.kind = "object"
    /\ ~MissingField(line)
    /\ ~AtMaxIds(args.max_ids, events_by_id, line.id[1])
    /\ AtMaxEvents(args.max_events_per_id, events_by_id, line.id[1])
    /\ ReadLine("json", line)
    /\ NextLine
    /\ events_by_id' = GetItem(events_by_id, line.id[1])
    /\ UNCHANGED stopped_ids

\* The record is kept.
JsonAppend(line) ==
    /\ line.kind = "object"
    /\ ~MissingField(line)
    /\ ~AtMaxIds(args.max_ids, events_by_id, line.id[1])
    /\ ~AtMaxEvents(args.max_events_per_id, events_by_id, line.id[1])
    /\ ReadLine("json", line)
    /\ NextLine
    /\ events_by_id' =
           AppendEvent(events_by_id, line.id[1],
                       LogEvent(paths[path_idx], line_no + 1,
                                JsonTimestamp(line, args.timestamp_format),
                                line.id[1], line.state[1]))
    /\ UNCHANGED stopped_ids

\* The id regex or the state regex does not match: the line is skipped.
TextNoMatch(line) ==
    /\ line.kind # "object" \/ MissingField(line)
    /\ ReadLine("text", line)
    /\ NextLine
    /\ UNCHANGED <<events_by_id, stopped_ids>>

\* --max-ids is reached and the ID is new: the record is dropped.
TextStoppedId(line) ==
    /\ line.kind = "object"
    /\ ~MissingField(line)
    /\ AtMaxIds(args.max_ids, events_by_id, line.id[1])
    /\ ReadLine("text", line)
    /\ NextLine
    /\ UNCHANGED <<events_by_id, stopped_ids>>

\* --max-events-per-id is reached for the ID: the record is dropped, the ID
\* inserted by the lookup.
TextOverCap(line) ==
    /\ line.kind = "object"
    /\ ~MissingField(line)
    /\ ~AtMaxIds(args.max_ids, events_by_id, line.id[1])
    /\ AtMaxEvents(args.max_events_per_id, events_by_id, line.id[1])
    /\ ReadLine("text", line)
    /\ NextLine
    /\ events_by_id' = GetItem(events_by_id, line.id[1])
    /\ UNCHANGED stopped_ids

\* The record is kept.
TextAppend(line) ==
    /\ line.kind = "object"
    /\ ~MissingField(line)
    /\ ~AtMaxIds(args.max_ids, events_by_id, line.id[1])
    /\ ~AtMaxEvents(args.max_events_per_id, events_by_id, line.id[1])
    /\ ReadLine("text", line)
    /\ NextLine
    /\ events_by_id' =
           AppendEvent(events_by_id, line.id[1],
                       LogEvent(paths[path_idx], line_no + 1,
                                TextTimestamp(line, args.regex_timestamp,
                                              args.timestamp_format),
                                line.id[1], line.state[1]))
    /\ UNCHANGED stopped_ids

\* One iteration of the reader's loop on the given line.
ReadOne(line) ==
    \/ JsonDecodeError(line)
    \/ JsonAttributeError(line)
    \/ JsonMissingField(line)
    \/ JsonStoppedId(line)
    \/ JsonOverCap(line)
    \/ JsonAppend(line)
    \/ TextNoMatch(line)
    \/ TextStoppedId(line)
    \/ TextOverCap(line)
    \/ TextAppend(line)

\* ------------------------------------------------- audit_id_sequence
\* key=lambda e: (e.timestamp or datetime.min, e.line_no)
SortKey(e) ==
    [ts |-> IF e.timestamp # None THEN e.timestamp[1] ELSE DatetimeMin,
     line_no |-> e.line_no]

\* datetime < datetime raises TypeError when exactly one side has a tzinfo.
CompareRaises(d1, d2) == d1.aware # d2.aware

\* Tuple comparison k1 < k2: the first components are compared with ==
\* (never raises), and the first differing component decides with <.
KeyLess(k1, k2) ==
    IF k1.ts # k2.ts THEN k1.ts.t < k2.ts.t ELSE k1.line_no < k2.line_no

\* sorted() compares keys until the order is settled; with two or more
\* events it must compare some naive key with some aware key whenever both
\* kinds are present, and that comparison raises.
SortRaises(events) ==
    \E i, j \in 1..Len(events) :
        /\ SortKey(events[i]).ts # SortKey(events[j]).ts
        /\ CompareRaises(SortKey(events[i]).ts, SortKey(events[j]).ts)

\* sorted(events, key=...): stable, ascending.
RECURSIVE SortedByKey(_)
SortedByKey(events) ==
    IF events = <<>> THEN <<>>
    ELSE LET n    == Len(events)
             rest == SortedByKey(SubSeq(events, 1, n - 1))
             e    == events[n]
             k    == Cardinality({i \in 1..Len(rest) :
                                    ~KeyLess(SortKey(e), SortKey(rest[i]))})
         IN  SubSeq(rest, 1, k) \o <<e>> \o SubSeq(rest, k + 1, Len(rest))

\* Variant: the inconsistency is built without its evidence event.
InconsistencyWithoutEvidence(id_value, type, message, ev) ==
    [id_value |-> id_value, type |-> type, message |-> message,
     events |-> <<>>]

Inconsistency(id_value, type, message, ev) ==
    [id_value |-> id_value, type |-> type, message |-> message,
     events |-> <<ev>>]

\* if state not in order_map
IsUnknown(om, state) == state \notin DOMAIN om

\* Variant: an unset last_state compares equal to every state.
IsDuplicateOrFirst(last, state) == last = None \/ last = Some(state)

\* if last_state == state
IsDuplicate(last, state) == last = Some(state)

\* Variant: the flag is not consulted.
ReportsDuplicateAlways(ignore_duplicates) == TRUE

\* if not ignore_duplicates
ReportsDuplicate(ignore_duplicates) == ~ignore_duplicates

\* Variant: a step back is never reported.
IsRegressionNever(last_idx, curr_idx) == FALSE

\* Variant: a step back by one rank is let through.
IsRegressionByTwo(last_idx, curr_idx) ==
    last_idx # None /\ curr_idx + 1 < last_idx[1]

\* if last_order_idx is not None and curr_idx < last_order_idx
IsRegression(last_idx, curr_idx) ==
    last_idx # None /\ curr_idx < last_idx[1]

\* Variant: a step back counts as a skip as well.
IsSkippedOrBackward(last_idx, curr_idx) ==
    last_idx # None /\ (curr_idx > last_idx[1] + 1 \/ curr_idx < last_idx[1])

\* Variant: any forward step counts as a skip.
IsSkippedOffByOne(last_idx, curr_idx) ==
    last_idx # None /\ curr_idx > last_idx[1]

\* if last_order_idx is not None and curr_idx > last_order_idx + 1
IsSkipped(last_idx, curr_idx) ==
    last_idx # None /\ curr_idx > last_idx[1] + 1

\* allowed_states[last_order_idx + 1 : curr_idx]
MissingStates(allowed_states, last_idx, curr_idx) ==
    SubSeq(allowed_states, last_idx + 2, curr_idx)

\* What one iteration of the loop appends for a known-state event.
KnownStateFindings(id_value, ev, om, allowed_states, ignore, last_idx, last) ==
    LET state    == ev.state
        curr_idx == om[state]
    IN  IF IsDuplicate(last, state)
        THEN IF ReportsDuplicate(ignore)
             THEN <<Inconsistency(id_value, "duplicate_state",
                                  <<"Duplicate state", state, id_value>>, ev)>>
             ELSE <<>>
        ELSE (IF IsRegression(last_idx, curr_idx)
              THEN <<Inconsistency(id_value, "regression",
                                   <<"State regression", id_value, last[1],
                                     state>>, ev)>>
              ELSE <<>>)
             \o
             (IF IsSkipped(last_idx, curr_idx)
              THEN <<Inconsistency(id_value, "skipped_state",
                                   <<"Skipped states", id_value,
                                     MissingStates(allowed_states, last_idx[1],
                                                   curr_idx),
                                     state>>, ev)>>
              ELSE <<>>)

\* The ID and events audit_all_ids passes for the current dict entry.
CurId == events_by_id[id_idx].key
CurEvents == events_by_id[id_idx].events
\* The event the loop of audit_id_sequence is about to process.
CurEv == events_sorted[ev_idx]

\* Variant: the events are sorted in place (events.sort), so the group holds
\* the sorted list afterwards.
SortEventsInPlace ==
    /\ pc = "audit_all_ids"
    /\ id_idx <= Len(events_by_id)
    /\ ~SortRaises(CurEvents)
    /\ events_sorted' = SortedByKey(CurEvents)
    /\ events_by_id' =
           [events_by_id EXCEPT ![id_idx].events = SortedByKey(CurEvents)]
    /\ ev_idx' = 1
    /\ last_order_idx' = None
    /\ last_state' = None
    /\ inconsistencies' = <<>>
    /\ pc' = "walk"
    /\ UNCHANGED <<args, order_map, ordered_states, id_idx,
                   all_inconsistencies, exit_code, stderr>>
    /\ UNCHANGED readVars

\* audit_all_ids calls audit_id_sequence, whose sort completes.
SortEvents ==
    /\ pc = "audit_all_ids"
    /\ id_idx <= Len(events_by_id)
    /\ ~SortRaises(CurEvents)
    /\ events_sorted' = SortedByKey(CurEvents)
    /\ ev_idx' = 1
    /\ last_order_idx' = None
    /\ last_state' = None
    /\ inconsistencies' = <<>>
    /\ pc' = "walk"
    /\ UNCHANGED <<args, order_map, ordered_states, events_by_id, id_idx,
                   all_inconsistencies, exit_code, stderr>>
    /\ UNCHANGED readVars

\* The sort raises TypeError; nothing catches it, so the interpreter prints
\* the traceback and the process ends with status 1.
SortTypeError ==
    /\ pc = "audit_all_ids"
    /\ id_idx <= Len(events_by_id)
    /\ SortRaises(CurEvents)
    /\ pc' = "exit"
    /\ exit_code' = Some(1)
    /\ stderr' = Append(stderr, "Traceback: TypeError")
    /\ UNCHANGED <<args, order_map, ordered_states, events_by_id, id_idx,
                   all_inconsistencies>>
    /\ UNCHANGED readVars
    /\ UNCHANGED auditVars

\* Variant: an unknown state is remembered as last_state.
WalkUnknownStateRemembered ==
    /\ pc = "walk"
    /\ ev_idx <= Len(events_sorted)
    /\ IsUnknown(order_map, events_sorted[ev_idx].state)
    /\ inconsistencies' =
           Append(inconsistencies,
                  Inconsistency(events_by_id[id_idx].key, "unknown_state",
                                <<"Unknown state", events_sorted[ev_idx].state,
                                  events_by_id[id_idx].key>>,
                                events_sorted[ev_idx]))
    /\ ev_idx' = ev_idx + 1
    /\ last_state' = Some(events_sorted[ev_idx].state)
    /\ UNCHANGED <<pc, args, order_map, ordered_states, events_by_id, id_idx,
                   events_sorted, last_order_idx, all_inconsistencies,
                   exit_code, stderr>>
    /\ UNCHANGED readVars

\* Variant: an unknown state forgets the last known state.
WalkUnknownStateResets ==
    /\ pc = "walk"
    /\ ev_idx <= Len(events_sorted)
    /\ IsUnknown(order_map, events_sorted[ev_idx].state)
    /\ inconsistencies' =
           Append(inconsistencies,
                  Inconsistency(events_by_id[id_idx].key, "unknown_state",
                                <<"Unknown state", events_sorted[ev_idx].state,
                                  events_by_id[id_idx].key>>,
                                events_sorted[ev_idx]))
    /\ ev_idx' = ev_idx + 1
    /\ last_order_idx' = None
    /\ last_state' = None
    /\ UNCHANGED <<pc, args, order_map, ordered_states, events_by_id, id_idx,
                   events_sorted, all_inconsistencies, exit_code, stderr>>
    /\ UNCHANGED readVars

\* One loop iteration on an event whose state has no rank.
WalkUnknownState ==
    /\ pc = "walk"
    /\ ev_idx <= Len(events_sorted)
    /\ IsUnknown(order_map, CurEv.state)
    /\ inconsistencies' =
           Append(inconsistencies,
                  Inconsistency(CurId, "unknown_state",
                                <<"Unknown state", CurEv.state, CurId>>, CurEv))
    /\ ev_idx' = ev_idx + 1
    /\ UNCHANGED <<pc, args, order_map, ordered_states, events_by_id, id_idx,
                   events_sorted, last_order_idx, last_state,
                   all_inconsistencies, exit_code, stderr>>
    /\ UNCHANGED readVars

\* Variant: a regression leaves last_order_idx and last_state where they
\* were.
WalkKnownStateHoldsOnRegression ==
    /\ pc = "walk"
    /\ ev_idx <= Len(events_sorted)
    /\ ~IsUnknown(order_map, events_sorted[ev_idx].state)
    /\ inconsistencies' =
           inconsistencies \o
           KnownStateFindings(events_by_id[id_idx].key, events_sorted[ev_idx],
                              order_map, ordered_states,
                              args.ignore_duplicates, last_order_idx,
                              last_state)
    /\ IF IsRegression(last_order_idx, order_map[events_sorted[ev_idx].state])
       THEN UNCHANGED <<last_order_idx, last_state>>
       ELSE /\ last_order_idx' = Some(order_map[events_sorted[ev_idx].state])
            /\ last_state' = Some(events_sorted[ev_idx].state)
    /\ ev_idx' = ev_idx + 1
    /\ UNCHANGED <<pc, args, order_map, ordered_states, events_by_id, id_idx,
                   events_sorted, all_inconsistencies, exit_code, stderr>>
    /\ UNCHANGED readVars

\* One loop iteration on an event whose state has a rank.
WalkKnownState ==
    /\ pc = "walk"
    /\ ev_idx <= Len(events_sorted)
    /\ ~IsUnknown(order_map, CurEv.state)
    /\ inconsistencies' =
           inconsistencies \o
           KnownStateFindings(CurId, CurEv, order_map, ordered_states,
                              args.ignore_duplicates, last_order_idx,
                              last_state)
    /\ last_order_idx' = Some(order_map[CurEv.state])
    /\ last_state' = Some(CurEv.state)
    /\ ev_idx' = ev_idx + 1
    /\ UNCHANGED <<pc, args, order_map, ordered_states, events_by_id, id_idx,
                   events_sorted, all_inconsistencies, exit_code, stderr>>
    /\ UNCHANGED readVars

\* Variant: the list of the ID is put in front of what was collected.
ReturnInconsistenciesInFront ==
    /\ pc = "walk"
    /\ ev_idx > Len(events_sorted)
    /\ all_inconsistencies' = inconsistencies \o all_inconsistencies
    /\ id_idx' = id_idx + 1
    /\ pc' = "audit_all_ids"
    /\ UNCHANGED <<args, order_map, ordered_states, events_by_id, exit_code,
                   stderr>>
    /\ UNCHANGED readVars
    /\ UNCHANGED auditVars

\* audit_id_sequence returns; audit_all_ids extends its list and moves on.
ReturnInconsistencies ==
    /\ pc = "walk"
    /\ ev_idx > Len(events_sorted)
    /\ all_inconsistencies' = all_inconsistencies \o inconsistencies
    /\ id_idx' = id_idx + 1
    /\ pc' = "audit_all_ids"
    /\ UNCHANGED <<args, order_map, ordered_states, events_by_id, exit_code,
                   stderr>>
    /\ UNCHANGED readVars
    /\ UNCHANGED auditVars

\* The loop of audit_id_sequence from the given (last_order_idx, last_state)
\* over the events that remain: the list it appends.
RECURSIVE WalkFrom(_, _, _, _, _, _, _)
WalkFrom(id_value, evs, om, allowed_states, ignore, last_idx, last) ==
    IF evs = <<>> THEN <<>>
    ELSE IF IsUnknown(om, Head(evs).state)
    THEN <<Inconsistency(id_value, "unknown_state",
                         <<"Unknown state", Head(evs).state, id_value>>,
                         Head(evs))>>
         \o WalkFrom(id_value, Tail(evs), om, allowed_states, ignore,
                     last_idx, last)
    ELSE KnownStateFindings(id_value, Head(evs), om, allowed_states, ignore,
                            last_idx, last)
         \o WalkFrom(id_value, Tail(evs), om, allowed_states, ignore,
                     Some(om[Head(evs).state]), Some(Head(evs).state))

\* The list audit_id_sequence returns when its sort does not raise.
audit_id_sequence(id_value, events, om, allowed_states, ignore) ==
    WalkFrom(id_value, SortedByKey(events), om, allowed_states, ignore,
             None, None)

\* The list audit_all_ids returns when no sort raises: the lists of the
\* IDs, in the order of events_by_id.items().
RECURSIVE audit_all_ids(_, _, _, _)
audit_all_ids(d, om, allowed_states, ignore) ==
    IF d = <<>> THEN <<>>
    ELSE audit_id_sequence(Head(d).key, Head(d).events, om, allowed_states,
                           ignore)
         \o audit_all_ids(Tail(d), om, allowed_states, ignore)

\* --------------------------------------------------------------- main
\* Leaving through sys.exit(status) after writing to stderr.
Exit(status, message) ==
    /\ pc' = "exit"
    /\ exit_code' = Some(status)
    /\ stderr' = IF message = None THEN stderr ELSE Append(stderr, message[1])

\* expand_files found no file.
NoFilesMatched ==
    /\ pc = "main"
    /\ paths = <<>>
    /\ Exit(1, Some("ERROR: no log files matched"))
    /\ UNCHANGED <<args, order_map, ordered_states, events_by_id, id_idx,
                   all_inconsistencies>>
    /\ UNCHANGED readVars
    /\ UNCHANGED auditVars

\* Variant: an empty map is let through to the reader.
EmptyAllowedOrderLetThrough ==
    /\ pc = "main"
    /\ paths # <<>>
    /\ StrippedStates(args.allowed_order) = <<>>
    /\ order_map' = OrderMapOf(StrippedStates(args.allowed_order))
    /\ ordered_states' = StrippedStates(args.allowed_order)
    /\ events_by_id' = <<>>
    /\ stopped_ids' = {}
    /\ path_idx' = 1
    /\ line_no' = 0
    /\ pc' = "read"
    /\ UNCHANGED <<args, paths, consumed, id_idx, all_inconsistencies,
                   exit_code, stderr>>
    /\ UNCHANGED auditVars

\* build_state_order returned an empty map.
EmptyAllowedOrder ==
    /\ pc = "main"
    /\ paths # <<>>
    /\ StrippedStates(args.allowed_order) = <<>>
    /\ order_map' = OrderMapOf(StrippedStates(args.allowed_order))
    /\ ordered_states' = StrippedStates(args.allowed_order)
    /\ Exit(1, Some("ERROR: --allowed-order produced no valid states"))
    /\ UNCHANGED <<args, events_by_id, id_idx, all_inconsistencies>>
    /\ UNCHANGED readVars
    /\ UNCHANGED auditVars

\* read_text_logs is called without --regex-id or --regex-state.
TextWithoutRegex ==
    /\ pc = "main"
    /\ paths # <<>>
    /\ StrippedStates(args.allowed_order) # <<>>
    /\ args.format = "text"
    /\ args.regex_id = None \/ args.regex_state = None
    /\ order_map' = OrderMapOf(StrippedStates(args.allowed_order))
    /\ ordered_states' = StrippedStates(args.allowed_order)
    /\ Exit(1, Some("ERROR: --regex-id and --regex-state are required"))
    /\ UNCHANGED <<args, events_by_id, id_idx, all_inconsistencies>>
    /\ UNCHANGED readVars
    /\ UNCHANGED auditVars

\* main enters read_json_logs or read_text_logs with an empty group.
BeginRead ==
    /\ pc = "main"
    /\ paths # <<>>
    /\ StrippedStates(args.allowed_order) # <<>>
    /\ args.format = "text" => (args.regex_id # None /\ args.regex_state # None)
    /\ order_map' = OrderMapOf(StrippedStates(args.allowed_order))
    /\ ordered_states' = StrippedStates(args.allowed_order)
    /\ events_by_id' = <<>>
    /\ stopped_ids' = {}
    /\ path_idx' = 1
    /\ line_no' = 0
    /\ pc' = "read"
    /\ UNCHANGED <<args, paths, consumed, id_idx, all_inconsistencies,
                   exit_code, stderr>>
    /\ UNCHANGED auditVars

\* if not events_by_id: print("WARNING: ...", file=sys.stderr)
WithEmptyWarning(err, d) ==
    IF d = <<>> THEN Append(err, "WARNING: No events were parsed") ELSE err

\* The reader returns; --show-ids prints the IDs and exits.
ShowIds ==
    /\ pc = "read"
    /\ path_idx > Len(paths)
    /\ args.show_ids
    /\ pc' = "exit"
    /\ exit_code' = Some(0)
    /\ stderr' = WithEmptyWarning(stderr, events_by_id)
    /\ UNCHANGED <<args, order_map, ordered_states, events_by_id, id_idx,
                   all_inconsistencies>>
    /\ UNCHANGED readVars
    /\ UNCHANGED auditVars

\* The reader returns; main calls audit_all_ids.
BeginAudit ==
    /\ pc = "read"
    /\ path_idx > Len(paths)
    /\ ~args.show_ids
    /\ stderr' = WithEmptyWarning(stderr, events_by_id)
    /\ all_inconsistencies' = <<>>
    /\ id_idx' = 1
    /\ pc' = "audit_all_ids"
    /\ UNCHANGED <<args, order_map, ordered_states, events_by_id, exit_code>>
    /\ UNCHANGED readVars
    /\ UNCHANGED auditVars

\* audit_all_ids returns; main renders the report and exits.
ReportAndExit ==
    /\ pc = "audit_all_ids"
    /\ id_idx > Len(events_by_id)
    /\ Exit(IF all_inconsistencies # <<>> THEN 3 ELSE 0, None)
    /\ UNCHANGED <<args, order_map, ordered_states, events_by_id, id_idx,
                   all_inconsistencies>>
    /\ UNCHANGED readVars
    /\ UNCHANGED auditVars

\* ------------------------------------------------------------ inputs
\* allowed_order.split(">") for the --allowed-order arguments considered.
OrderArgs ==
    UNION {[1..n -> Tokens] : n \in 1..MaxOrderLen}

\* The event lists read_json_logs can build for one ID from one file: line
\* numbers increase along the list.
EventLists(id) ==
    UNION {
        {[i \in 1..n |->
            [source_file |-> 1, line_no |-> i, timestamp |-> f[i].timestamp,
             id_value |-> id, state |-> f[i].state]] :
         f \in [1..n -> [timestamp : Timestamps, state : EventStates]]} :
        n \in 1..MaxEvents}

\* The command line with every option at its argparse default.
DefaultArgs ==
    [allowed_order |-> <<"NEW", "RUNNING", "DONE">>,
     show_ids |-> FALSE,
     format |-> "json",
     regex_timestamp |-> None,
     regex_id |-> None,
     regex_state |-> None,
     ignore_duplicates |-> FALSE,
     max_ids |-> None,
     max_events_per_id |-> None,
     timestamp_format |-> "auto"]

\* The non-empty Allowed-Order Definitions main lets through.
AuditOrders == {StrippedStates(toks) : toks \in OrderArgs} \ {<<>>}

\* Groups of one ID.
AuditGroups ==
    {<<[key |-> "abc", events |-> evs]>> : evs \in EventLists("abc")}

\* audit_all_ids is entered with a group of one ID.
InitAudit ==
    /\ pc = "audit_all_ids"
    /\ ordered_states \in AuditOrders
    /\ \E ign \in BOOLEAN :
           args = [DefaultArgs EXCEPT !.ignore_duplicates = ign,
                                      !.allowed_order = ordered_states]
    /\ paths = <<1>>
    /\ path_idx = 2
    /\ line_no = 0
    /\ consumed = <<>>
    /\ stopped_ids = {}
    /\ order_map = OrderMapOf(ordered_states)
    /\ events_by_id \in AuditGroups
    /\ id_idx = 1
    /\ events_sorted = <<>>
    /\ ev_idx = 1
    /\ last_order_idx = None
    /\ last_state = None
    /\ inconsistencies = <<>>
    /\ all_inconsistencies = <<>>
    /\ exit_code = None
    /\ stderr = <<>>

NextAudit ==
    \/ SortEvents
    \/ SortTypeError
    \/ WalkUnknownState
    \/ WalkKnownState
    \/ ReturnInconsistencies

SpecAudit == InitAudit /\ [][NextAudit]_vars

\* The lines the readers are fed: unusable ones, and records of either ID;
\* the timestamp field is absent, ...T...Z text, or "date time" text.
IngestLines ==
    {GarbageLine, ValueLine,
     Line("object", None, Some("NEW"), None),
     Line("object", Some("abc"), None, None),
     Line("object", Some("xyz"), Some("NEW"), None)}
    \cup
    {Line("object", Some("abc"), Some("NEW"), ts) :
        ts \in {None, Some(RawText("T_Z", 1)), Some(RawText("space", 1))}}

\* The reader's options: JSON under each timestamp mode, text with and
\* without a timestamp regex; each with and without the two caps.
IngestArgs ==
    {[DefaultArgs EXCEPT !.format = fmt[1],
                         !.regex_id = fmt[2], !.regex_state = fmt[2],
                         !.regex_timestamp = fmt[3],
                         !.timestamp_format = fmt[4],
                         !.max_ids = m, !.max_events_per_id = k] :
        fmt \in {<<"json", None, None, "auto">>,
                 <<"json", None, None, "iso8601">>,
                 <<"json", None, None, "iso8601_z">>,
                 <<"text", Some("re"), Some("re"), "auto">>,
                 <<"text", Some("re"), None, "auto">>},
        m \in {None, Some(0), Some(1)},
        k \in {None, Some(0), Some(2)}}

\* read_json_logs / read_text_logs is entered with two files to read.
InitIngest ==
    /\ pc = "read"
    /\ args \in IngestArgs
    /\ paths = <<1, 2>>
    /\ path_idx = 1
    /\ line_no = 0
    /\ consumed = <<>>
    /\ stopped_ids = {}
    /\ ordered_states = StrippedStates(DefaultArgs.allowed_order)
    /\ order_map = OrderMapOf(ordered_states)
    /\ events_by_id = <<>>
    /\ id_idx = 1
    /\ events_sorted = <<>>
    /\ ev_idx = 1
    /\ last_order_idx = None
    /\ last_state = None
    /\ inconsistencies = <<>>
    /\ all_inconsistencies = <<>>
    /\ exit_code = None
    /\ stderr = <<>>

NextIngest ==
    \/ \E line \in IngestLines : ReadOne(line)
    \/ EndOfFile

SpecIngest == InitIngest /\ [][NextIngest]_vars

\* The command lines of whole runs: JSON under every combination of the
\* flags and caps, text with and without its required regexes, and JSON with
\* --max-events-per-id 0.
MainArgs ==
    {[DefaultArgs EXCEPT !.allowed_order = order,
                         !.show_ids = show,
                         !.ignore_duplicates = ign,
                         !.max_ids = cap, !.max_events_per_id = cap] :
        order \in {<<"">>, <<"NEW", "RUNNING", "DONE">>},
        show \in BOOLEAN,
        ign \in BOOLEAN,
        cap \in {None, Some(1)}}
    \cup
    {[DefaultArgs EXCEPT !.format = "text",
                         !.regex_id = re, !.regex_state = re,
                         !.regex_timestamp = re,
                         !.max_ids = cap, !.max_events_per_id = cap] :
        re \in {None, Some("re")},
        cap \in {None, Some(1)}}
    \cup
    {[DefaultArgs EXCEPT !.show_ids = show, !.max_events_per_id = Some(0)] :
        show \in BOOLEAN}

\* The lines of whole runs.
MainLines ==
    {GarbageLine, ValueLine,
     Line("object", Some("abc"), None, None),
     Line("object", Some("abc"), Some("NEW"), None),
     Line("object", Some("abc"), Some("DONE"), None),
     Line("object", Some("abc"), Some("PENDING"), None),
     Line("object", Some("xyz"), Some("NEW"), Some(RawText("T_Z", 1))),
     Line("object", Some("xyz"), Some("NEW"), Some(RawText("space", 1)))}

\* The process starts: arguments parsed, files expanded.
Init ==
    /\ pc = "main"
    /\ args \in MainArgs
    /\ paths \in {<<>>, <<1>>, <<1, 2>>}
    /\ path_idx = 1
    /\ line_no = 0
    /\ consumed = <<>>
    /\ stopped_ids = {}
    /\ ordered_states = <<>>
    /\ order_map = <<>>
    /\ events_by_id = <<>>
    /\ id_idx = 1
    /\ events_sorted = <<>>
    /\ ev_idx = 1
    /\ last_order_idx = None
    /\ last_state = None
    /\ inconsistencies = <<>>
    /\ all_inconsistencies = <<>>
    /\ exit_code = None
    /\ stderr = <<>>

Next ==
    \/ NoFilesMatched
    \/ EmptyAllowedOrder
    \/ TextWithoutRegex
    \/ BeginRead
    \/ \E line \in MainLines : ReadOne(line)
    \/ EndOfFile
    \/ ShowIds
    \/ BeginAudit
    \/ SortEvents
    \/ SortTypeError
    \/ WalkUnknownState
    \/ WalkKnownState
    \/ ReturnInconsistencies
    \/ ReportAndExit

Spec == Init /\ [][Next]_vars

\* ------------------------------------------- properties: the per-ID walk
\* A step that runs one iteration of the loop over events_sorted.
WalkStep ==
    /\ pc = "walk"
    /\ ev_idx <= Len(events_sorted)
    /\ ev_idx' = ev_idx + 1

\* The inconsistencies that step appended.
Appended ==
    SubSeq(inconsistencies', Len(inconsistencies) + 1, Len(inconsistencies'))
AppendedOfType(type) ==
    {i \in 1..Len(Appended) : Appended[i].type = type}

\* The event of the step has a rank, and its state differs from last_state.
ChangedKnownState ==
    /\ CurEv.state \in DOMAIN order_map
    /\ last_state # Some(CurEv.state)

\* The allowed states whose rank lies strictly between lo and hi, as the
\* Allowed-Order Definition lists them.
StatesBetween(lo, hi) ==
    LET Between(s) == lo < order_map[s] /\ order_map[s] < hi
    IN  SelectSeq(ordered_states, Between)

\* The walk of the current ID has processed every event.
WalkDone == pc = "walk" /\ ev_idx > Len(events_sorted)

SortedStates == [i \in 1..Len(events_sorted) |-> events_sorted[i].state]

\* C1: on an event whose known state differs from last_state, skipped_state
\* is emitted iff last_rank is set and the rank exceeds last_rank + 1, and
\* the missing states it names are exactly the allowed states whose rank is
\* strictly between last_rank and the event's rank, in allowed order.
C1_SkippedState ==
    [][(WalkStep /\ ChangedKnownState) =>
        LET rank == order_map[CurEv.state]
            skipped == AppendedOfType("skipped_state")
        IN  /\ (skipped # {}) <=>
                   (last_order_idx # None /\ rank > last_order_idx[1] + 1)
            /\ Cardinality(skipped) <= 1
            /\ \A i \in skipped :
                   Appended[i].message[3] =
                       StatesBetween(last_order_idx[1], rank)]_vars

\* C2: on an event whose known state differs from last_state, regression is
\* emitted (once) iff last_rank is set and the event's rank is strictly
\* lower than last_rank.
C2_Regression ==
    [][(WalkStep /\ ChangedKnownState) =>
        LET rank == order_map[CurEv.state]
            regressions == AppendedOfType("regression")
        IN  /\ (regressions # {}) <=>
                   (last_order_idx # None /\ rank < last_order_idx[1])
            /\ Cardinality(regressions) <= 1
            /\ \A i \in regressions : Appended[i].events = <<CurEv>>]_vars

\* C2 witness: RUNNING, NEW under NEW>RUNNING>DONE gave exactly one
\* regression.
C2_Witness ==
    /\ WalkDone
    /\ ordered_states = <<"NEW", "RUNNING", "DONE">>
    /\ SortedStates = <<"RUNNING", "NEW">>
    /\ Len(inconsistencies) = 1
    /\ inconsistencies[1].type = "regression"

\* C3: on a known-state event whose state equals last_state, duplicate_state
\* is emitted iff the ignore-duplicates flag is false, nothing else is
\* emitted, and last_rank / last_state become the event's rank and state.
C3_DuplicateState ==
    [][(WalkStep /\ last_state = Some(CurEv.state)
                 /\ CurEv.state \in DOMAIN order_map) =>
        /\ Appended = (IF args.ignore_duplicates THEN <<>>
                       ELSE <<Inconsistency(CurId, "duplicate_state",
                                            <<"Duplicate state", CurEv.state,
                                              CurId>>, CurEv)>>)
        /\ last_order_idx' = Some(order_map[CurEv.state])
        /\ last_state' = Some(CurEv.state)]_vars

\* C3 witness: NEW, NEW was walked with the flag set and nothing was emitted.
C3_Witness ==
    /\ WalkDone
    /\ args.ignore_duplicates
    /\ SortedStates = <<"NEW", "NEW">>
    /\ "NEW" \in DOMAIN order_map
    /\ inconsistencies = <<>>

\* C4: an event whose state is not in the Allowed-Order Definition emits
\* exactly one unknown_state and leaves last_rank and last_state unchanged.
C4_UnknownState ==
    [][(WalkStep /\ CurEv.state \notin DOMAIN order_map) =>
        /\ Len(Appended) = 1
        /\ Appended[1].type = "unknown_state"
        /\ Appended[1].events = <<CurEv>>
        /\ last_order_idx' = last_order_idx
        /\ last_state' = last_state]_vars

\* C4 witness: an unknown state was walked after a known one, and the last
\* known state is still remembered.
C4_Witness ==
    /\ pc = "walk"
    /\ ev_idx = 3
    /\ events_sorted[1].state \in DOMAIN order_map
    /\ events_sorted[2].state \notin DOMAIN order_map
    /\ last_state = Some(events_sorted[1].state)
    /\ Len(inconsistencies) = 1
    /\ inconsistencies[1].type = "unknown_state"

\* The premises of C5 on the sorted events of the current ID.
AllKnown ==
    \A i \in 1..Len(events_sorted) : events_sorted[i].state \in DOMAIN order_map
NoStateTwice ==
    \A i, j \in 1..Len(events_sorted) :
        i # j => events_sorted[i].state # events_sorted[j].state
RanksNonDecreasing ==
    \A i \in 1..(Len(events_sorted) - 1) :
        order_map[events_sorted[i].state] <= order_map[events_sorted[i + 1].state]
RanksContiguous ==
    \A i \in 1..(Len(events_sorted) - 1) :
        order_map[events_sorted[i + 1].state] <= order_map[events_sorted[i].state] + 1

\* The Allowed-Order Definition declares no label twice.
DistinctLabels ==
    \A i, j \in 1..Len(ordered_states) :
        i # j => ordered_states[i] # ordered_states[j]

\* C5 as stated: all states known, no state twice, ranks non-decreasing in
\* sorted order: the walk emits no inconsistency at all.  (Stated for
\* definitions without a repeated label, so that a violation is owed to the
\* walk alone.)
C5_NonDecreasingIsClean ==
    (WalkDone /\ DistinctLabels /\ AllKnown /\ NoStateTwice
              /\ RanksNonDecreasing)
        => inconsistencies = <<>>

\* C5 as amended: under the same premises the walk emits nothing but
\* skipped_state, and nothing at all when no rank exceeds its predecessor's
\* by more than one.
C5_ContiguousIsClean ==
    (WalkDone /\ AllKnown /\ NoStateTwice /\ RanksNonDecreasing) =>
        /\ \A i \in 1..Len(inconsistencies) :
               inconsistencies[i].type = "skipped_state"
        /\ RanksContiguous => inconsistencies = <<>>

\* C5 witness: NEW, RUNNING, DONE under NEW>RUNNING>DONE, nothing emitted.
C5_Witness ==
    /\ WalkDone
    /\ ordered_states = <<"NEW", "RUNNING", "DONE">>
    /\ SortedStates = <<"NEW", "RUNNING", "DONE">>
    /\ inconsistencies = <<>>

\* C8: ordering never fails because of timestamps: whatever mix of absent,
\* naive and offset-carrying timestamps an ID's events hold, the sort does
\* not raise.
C8_OrderingNeverFails ==
    \A i \in 1..Len(stderr) : stderr[i] # "Traceback: TypeError"

\* ---------------------------------------------- properties: ingestion
\* A step that reads one more line.
ReadStep == pc = "read" /\ Len(consumed') = Len(consumed) + 1
\* The line that step read, with its file and line number.
LastRead == consumed'[Len(consumed')]

\* A record with both the id and the state field.
Usable(line) == line.kind = "object" /\ line.id # None /\ line.state # None

\* The event a usable record is stored as.
EventFor(entry) ==
    LogEvent(entry.source_file, entry.line_no,
             IF args.format = "json"
             THEN JsonTimestamp(entry.line, args.timestamp_format)
             ELSE TextTimestamp(entry.line, args.regex_timestamp,
                                args.timestamp_format),
             entry.line.id[1], entry.line.state[1])

\* The usable records of an ID read so far, in encounter order, as events.
RecordsOf(id) ==
    LET Mine(entry) == Usable(entry.line) /\ entry.line.id = Some(id)
        mine == SelectSeq(consumed, Mine)
    IN  [i \in 1..Len(mine) |-> EventFor(mine[i])]

Min(a, b) == IF a <= b THEN a ELSE b

\* C6: with max_ids = M the group never holds more than M distinct IDs; once
\* M IDs are known the set of IDs is frozen and a record of an unknown ID
\* changes nothing, while a record of a known ID that is below the per-ID
\* cap is appended to that ID's events.
C6_MaxIds ==
    [][args.max_ids # None =>
        LET M == args.max_ids[1]
            id == LastRead.line.id[1]
        IN  /\ Len(events_by_id') <= M
            /\ Cardinality(Range(Keys(events_by_id'))) = Len(events_by_id')
            /\ Len(events_by_id) >= M =>
                   Keys(events_by_id') = Keys(events_by_id)
            /\ (ReadStep /\ Usable(LastRead.line)) =>
                   /\ (Len(events_by_id) >= M /\ ~HasKey(events_by_id, id)) =>
                          events_by_id' = events_by_id
                   /\ (/\ HasKey(events_by_id, id)
                       /\ \/ args.max_events_per_id = None
                          \/ Len(EventsOf(events_by_id, id)) <
                                 args.max_events_per_id[1]) =>
                          EventsOf(events_by_id', id) =
                              Append(EventsOf(events_by_id, id),
                                     EventFor(LastRead))]_vars

\* C6 witness: with max_ids = 1, abc was admitted, a record of xyz was
\* dropped, and a later record of abc was still appended.
C6_Witness ==
    /\ pc = "read"
    /\ args.max_ids = Some(1)
    /\ Len(consumed) = 3
    /\ Usable(consumed[2].line) /\ consumed[2].line.id = Some("xyz")
    /\ Keys(events_by_id) = <<"abc">>
    /\ Len(events_by_id[1].events) = 2
    /\ events_by_id[1].events[2] = EventFor(consumed[3])

\* C7: with max_events_per_id = K every admitted ID holds exactly the first
\* min(K, n) of its n usable records, in encounter order, at every point of
\* ingestion.
C7_MaxEventsPerId ==
    args.max_events_per_id # None =>
        \A i \in 1..Len(events_by_id) :
            LET K    == args.max_events_per_id[1]
                recs == RecordsOf(events_by_id[i].key)
            IN  /\ Len(events_by_id[i].events) <= K
                /\ events_by_id[i].events =
                       SubSeq(recs, 1, Min(K, Len(recs)))

\* C7 witness: cap 2, three usable records of abc read over two files, the
\* first two retained and the third, the only one with a timestamp, dropped.
C7_Witness ==
    /\ args.max_events_per_id = Some(2)
    /\ Len(RecordsOf("abc")) = 3
    /\ RecordsOf("abc")[3].source_file = 2
    /\ RecordsOf("abc")[3].timestamp # None
    /\ RecordsOf("abc")[1].timestamp = None
    /\ EventsOf(events_by_id, "abc") = SubSeq(RecordsOf("abc"), 1, 2)

\* C9: a line of the JSON-line adapter that does not decode, decodes to
\* something that is not a record, or lacks the id or state field is
\* skipped: the group is unchanged and ingestion continues.
C9_UnusableLineSkipped ==
    [][(ReadStep /\ args.format = "json" /\ ~Usable(LastRead.line)) =>
        /\ events_by_id' = events_by_id
        /\ pc' = "read"
        /\ exit_code' = None]_vars

\* --------------------------------------------------- properties: main
\* The run ended in an uncaught exception.
Crashed ==
    \E i \in 1..Len(stderr) :
        stderr[i] \in {"Traceback: TypeError", "Traceback: AttributeError"}

\* The four outcomes of the process-exit contract.  A run with a bad
\* configuration counts as a configuration error whatever its files.
ConfigurationError ==
    \/ StrippedStates(args.allowed_order) = <<>>
    \/ args.format = "text" /\ (args.regex_id = None \/ args.regex_state = None)
IngestionFailure == ~ConfigurationError /\ paths = <<>>
InconsistenciesFound ==
    ~IngestionFailure /\ ~ConfigurationError /\ all_inconsistencies # <<>>
Success ==
    ~IngestionFailure /\ ~ConfigurationError /\ all_inconsistencies = <<>>

\* C10: the four outcomes end with four different exit statuses, the
\* documented ones: 0 success, 1 configuration error, 2 ingestion failure,
\* 3 inconsistencies found.
C10_ExitStatus ==
    (pc = "exit" /\ ~Crashed) =>
        /\ Success => exit_code = Some(0)
        /\ ConfigurationError => exit_code = Some(1)
        /\ IngestionFailure => exit_code = Some(2)
        /\ InconsistenciesFound => exit_code = Some(3)

\* C11: with an allowed-order string that yields no label, the run never
\* leaves main except to exit: no line is read, no event is stored, no ID is
\* sorted or walked, and the exit is the configuration-error one (status 1
\* after one ERROR line, the --allowed-order one whenever a file matched).
C11_EmptyOrderRejected ==
    StrippedStates(args.allowed_order) = <<>> =>
        /\ pc \in {"main", "exit"}
        /\ consumed = <<>>
        /\ events_by_id = <<>>
        /\ events_sorted = <<>>
        /\ all_inconsistencies = <<>>
        /\ pc = "exit" =>
               /\ exit_code = Some(1)
               /\ Len(stderr) = 1
               /\ paths # <<>> =>
                      stderr[1] = "ERROR: --allowed-order produced no valid states"

\* C11 witness: files matched, the order was empty, and the run has exited
\* with the --allowed-order error without reading a line.
C11_Witness ==
    /\ pc = "exit"
    /\ paths = <<1, 2>>
    /\ StrippedStates(args.allowed_order) = <<>>
    /\ stderr = <<"ERROR: --allowed-order produced no valid states">>
    /\ exit_code = Some(1)
    /\ consumed = <<>>

\* C12: with N the length of the returned state list, every rank of the
\* returned map is an integer in [0, N), no two labels share a rank, and the
\* label declared at position i (zero-based) has rank i.
C12_RanksFollowDeclaration ==
    LET N == Len(ordered_states)
    IN  /\ \A s \in DOMAIN order_map : order_map[s] \in 0..(N - 1)
        /\ \A s, t \in DOMAIN order_map :
               s # t => order_map[s] # order_map[t]
        /\ \A i \in 1..N :
               /\ ordered_states[i] \in DOMAIN order_map
               /\ order_map[ordered_states[i]] = i - 1

\* ------------------------------------- properties: the order of the walk
\* Every arrangement of a list.
Arrangements(seq) ==
    LET n == Len(seq)
    IN  {[i \in 1..n |-> seq[p[i]]] :
            p \in {q \in [1..n -> 1..n] : Range(q) = 1..n}}

\* C13: the list audit_id_sequence returns for an ID is the same for every
\* permutation of the ID's event list, events of several files included.
C13_IngestionOrderIrrelevant ==
    WalkDone =>
        \A evs \in Arrangements(CurEvents) :
            audit_id_sequence(CurId, evs, order_map, ordered_states,
                              args.ignore_duplicates) = inconsistencies

\* Where an event of the current ID stands in ingestion order.
IngestionIndex(ev) == CHOOSE i \in 1..Len(CurEvents) : CurEvents[i] = ev

\* C14: in the audit order of an ID every event without a timestamp comes
\* before every event with one, and events with equal timestamps, or all
\* without one, keep their ingestion order, whatever files they come from.
C14_TiesKeepIngestionOrder ==
    pc = "walk" =>
        \A i, j \in 1..Len(events_sorted) :
            i < j =>
                /\ events_sorted[j].timestamp = None
                       => events_sorted[i].timestamp = None
                /\ events_sorted[i].timestamp = events_sorted[j].timestamp
                       => IngestionIndex(events_sorted[i]) <
                              IngestionIndex(events_sorted[j])

\* ------------------------------------------ properties: audit_all_ids
\* audit_all_ids has returned.
AuditDone == pc = "audit_all_ids" /\ id_idx > Len(events_by_id)

\* C15: no step of audit_all_ids changes the group's per-ID event sequences,
\* and when it returns, a second run on the group as the first run left it
\* (same Allowed-Order Definition, same flag) gives the same list: same
\* kinds, messages, evidence events and order.
C15_AuditIsRepeatable ==
    [][(pc \in {"audit_all_ids", "walk"}) =>
        /\ events_by_id' = events_by_id
        /\ (pc' = "audit_all_ids" /\ id_idx' > Len(events_by_id')) =>
               all_inconsistencies' =
                   audit_all_ids(events_by_id', order_map', ordered_states',
                                 (args').ignore_duplicates)]_vars

\* C15 witness: audit_all_ids returned a non-empty list for a group of two
\* IDs, one of whose event sequences is not in sorted order, and a second
\* run returns that list again.
C15_Witness ==
    /\ AuditDone
    /\ Len(events_by_id) = 2
    /\ all_inconsistencies # <<>>
    /\ \E i \in 1..Len(events_by_id) :
           SortedByKey(events_by_id[i].events) # events_by_id[i].events
    /\ audit_all_ids(events_by_id, order_map, ordered_states,
                     args.ignore_duplicates) = all_inconsistencies

\* No event before the one being processed had a known state.
NoKnownStateYet ==
    \A k \in 1..(ev_idx - 1) : events_sorted[k].state \notin DOMAIN order_map

ProgressionKinds == {"regression", "skipped_state", "duplicate_state"}

\* C16: the first known-state event of an ID in audit order emits nothing,
\* whatever unknown-state events precede it; the only event of a one-event
\* group emits no regression, skipped_state or duplicate_state.
C16_FirstKnownStateIsClean ==
    [][WalkStep =>
        /\ (CurEv.state \in DOMAIN order_map /\ NoKnownStateYet)
               => Appended = <<>>
        /\ Len(events_sorted) = 1 =>
               \A i \in 1..Len(Appended) :
                   Appended[i].type \notin ProgressionKinds]_vars

\* C16 witness: an unknown state was walked first, then the first known
\* state, and the unknown_state of the first event is all that was emitted.
C16_Witness ==
    /\ pc = "walk"
    /\ ev_idx = 3
    /\ events_sorted[1].state \notin DOMAIN order_map
    /\ events_sorted[2].state \in DOMAIN order_map
    /\ last_state = Some(events_sorted[2].state)
    /\ Len(inconsistencies) = 1
    /\ inconsistencies[1].events = <<events_sorted[1]>>

\* The run got as far as reading its inputs.
InputsRead == ~ConfigurationError /\ paths # <<>>

\* No event is retained for any ID.
NoEventRetained ==
    \A i \in 1..Len(events_by_id) : events_by_id[i].events = <<>>

Warned ==
    \E i \in 1..Len(stderr) : stderr[i] = "WARNING: No events were parsed"

\* C17: a run that read its inputs to the end and retained no event has
\* written the 'no events parsed' warning, has an empty inconsistency list,
\* and exits with the success status.
C17_EmptyRunWarned ==
    (pc = "exit" /\ InputsRead /\ ~Crashed /\ NoEventRetained) =>
        /\ Warned
        /\ all_inconsistencies = <<>>
        /\ exit_code = Some(0)

\* ------------------------------ properties: ingestion and timestamps
\* A group with every timestamp blanked: what is left of each event is its
\* id, state, source file and line number.
StripTimestamps(d) ==
    [i \in 1..Len(d) |->
        [key |-> d[i].key,
         events |-> [j \in 1..Len(d[i].events) |->
                        [d[i].events[j] EXCEPT !.timestamp = None]]]]

\* What a line does to a group, told without looking at the line's
\* timestamp: an unusable line and a record refused by the ID cap change
\* nothing, a record over the per-ID cap at most enters its ID, any other
\* record is appended to its ID's events.
RetainedAfter(d, entry) ==
    IF ~Usable(entry.line) THEN d
    ELSE IF AtMaxIds(args.max_ids, d, entry.line.id[1]) THEN d
    ELSE IF AtMaxEvents(args.max_events_per_id, d, entry.line.id[1])
    THEN GetItem(d, entry.line.id[1])
    ELSE AppendEvent(d, entry.line.id[1],
                     LogEvent(entry.source_file, entry.line_no, None,
                              entry.line.id[1], entry.line.state[1]))

\* The timestamp text of a line is there and does not parse.
TimestampFailsToParse(line) ==
    /\ line.ts # None
    /\ args.format = "text" => args.regex_timestamp # None
    /\ parse_timestamp(StrOf(line.ts), args.timestamp_format) = None

\* C18: what a read step retains, timestamps aside, is decided by the group
\* and the line with their timestamps blanked, so two streams that differ
\* only in timestamps retain the same records in the same per-ID order; and
\* a record whose timestamp fails to parse, when no cap refuses it, is
\* appended with timestamp None.
C18_RetentionIgnoresTimestamp ==
    [][ReadStep =>
        /\ StripTimestamps(events_by_id') =
               RetainedAfter(StripTimestamps(events_by_id), LastRead)
        /\ (/\ Usable(LastRead.line)
            /\ TimestampFailsToParse(LastRead.line)
            /\ ~AtMaxIds(args.max_ids, events_by_id, LastRead.line.id[1])
            /\ ~AtMaxEvents(args.max_events_per_id, events_by_id,
                            LastRead.line.id[1])) =>
               EventsOf(events_by_id', LastRead.line.id[1]) =
                   Append(EventsOf(events_by_id, LastRead.line.id[1]),
                          LogEvent(LastRead.source_file, LastRead.line_no,
                                   None, LastRead.line.id[1],
                                   LastRead.line.state[1]))]_vars

\* C18 witness: under --timestamp-format iso8601 three records of abc were
\* read, with a timestamp that parses, with one that does not, and with
\* none; all three are retained, the last two with timestamp None.
C18_Witness ==
    /\ args.format = "json"
    /\ args.timestamp_format = "iso8601"
    /\ Len(consumed) = 3
    /\ \A i \in 1..3 : Usable(consumed[i].line)
    /\ consumed[1].line.ts = Some(RawText("T_Z", 1))
    /\ consumed[2].line.ts = Some(RawText("space", 1))
    /\ consumed[3].line.ts = None
    /\ Len(events_by_id) = 1
    /\ Len(events_by_id[1].events) = 3
    /\ events_by_id[1].events[1].timestamp # None
    /\ events_by_id[1].events[2].timestamp = None
    /\ events_by_id[1].events[3].timestamp = None

\* ------------------------------- properties: the shape of the findings
\* C19: one loop iteration appends at most one inconsistency: never
\* regression together with skipped_state, and neither together with
\* duplicate_state or unknown_state; so the list of an ID never grows longer
\* than the number of events walked.
C19_AtMostOnePerEvent ==
    [][WalkStep =>
        /\ Len(Appended) <= 1
        /\ ~(AppendedOfType("regression") # {}
               /\ AppendedOfType("skipped_state") # {})
        /\ Len(inconsistencies') <= ev_idx' - 1
        /\ Len(inconsistencies') <= Len(CurEvents)]_vars

\* C19 witness: DONE, NEW, DONE under NEW>RUNNING>DONE gave a regression on
\* the second event and a skipped_state on the third, one each.
C19_Witness ==
    /\ WalkDone
    /\ ordered_states = <<"NEW", "RUNNING", "DONE">>
    /\ SortedStates = <<"DONE", "NEW", "DONE">>
    /\ Len(inconsistencies) = 2
    /\ inconsistencies[1].type = "regression"
    /\ inconsistencies[1].events = <<events_sorted[2]>>
    /\ inconsistencies[2].type = "skipped_state"
    /\ inconsistencies[2].events = <<events_sorted[3]>>

\* C20: every inconsistency a loop iteration appends carries exactly one
\* evidence event, the event of that iteration, and its correlation ID is
\* the audited ID, which is also the ID of the evidence event; the same
\* then holds of every entry of the list audit_all_ids collects.
C20_OneEvidenceEvent ==
    [][/\ WalkStep =>
           /\ CurEv.id_value = CurId
           /\ \A i \in 1..Len(Appended) :
                  /\ Appended[i].events = <<CurEv>>
                  /\ Appended[i].id_value = CurId
       /\ \A i \in 1..Len(all_inconsistencies') :
              /\ Len(all_inconsistencies'[i].events) = 1
              /\ all_inconsistencies'[i].id_value =
                     all_inconsistencies'[i].events[1].id_value]_vars

\* C20 witness: a whole run audited two IDs and collected one inconsistency
\* for each, each with one evidence event of its own ID.
C20_Witness ==
    /\ AuditDone
    /\ Len(all_inconsistencies) = 2
    /\ all_inconsistencies[1].id_value # all_inconsistencies[2].id_value
    /\ \A i \in 1..2 :
           /\ Len(all_inconsistencies[i].events) = 1
           /\ all_inconsistencies[i].events[1].id_value =
                  all_inconsistencies[i].id_value

\* ------------------------------------ properties: one ID and the others
\* The run went through its reader and called audit_all_ids.
AuditEntered ==
    /\ InputsRead
    /\ ~args.show_ids
    /\ \A k \in 1..Len(stderr) : stderr[k] # "Traceback: AttributeError"

\* The list main receives from audit_all_ids and reports: nothing when the
\* call raised.
Reported ==
    IF exit_code \in {Some(0), Some(3)} THEN all_inconsistencies ELSE <<>>

\* The entries of a list of inconsistencies that are about one ID.
OfId(list, id) ==
    LET Mine(inc) == inc.id_value = id
    IN  SelectSeq(list, Mine)

\* C21: when the run has ended, what audit_all_ids reported for an ID is
\* what audit_id_sequence returns for that ID's events alone, whatever the
\* events of the other IDs of the group.
C21_IdsAreIndependent ==
    (pc = "exit" /\ AuditEntered) =>
        \A i \in 1..Len(events_by_id) :
            ~SortRaises(events_by_id[i].events) =>
                OfId(Reported, events_by_id[i].key) =
                    audit_id_sequence(events_by_id[i].key,
                                      events_by_id[i].events, order_map,
                                      ordered_states, args.ignore_duplicates)

\* ------------------------------------- properties: the last known state
\* The positions before the event being processed whose state has a rank.
KnownBefore ==
    {k \in 1..(ev_idx - 1) : events_sorted[k].state \in DOMAIN order_map}

\* The state of the immediately preceding known-state event, if any.
PrevKnownState ==
    IF KnownBefore = {} THEN None
    ELSE Some(events_sorted[CHOOSE k \in KnownBefore :
                               \A m \in KnownBefore : m <= k].state)

\* The event being processed has a known state that an earlier event of the
\* walk had, with a different known state immediately before it.
Reappears ==
    /\ CurEv.state \in DOMAIN order_map
    /\ PrevKnownState # Some(CurEv.state)
    /\ \E k \in KnownBefore : events_sorted[k].state = CurEv.state

\* The kinds of the inconsistencies a step appended, in order.
AppendedTypes == [i \in 1..Len(Appended) |-> Appended[i].type]

\* C22 as stated: a reappearing known state is reported as a regression and
\* as nothing else, and duplicate_state is emitted only when the state
\* equals that of the immediately preceding known-state event.  (Stated for
\* definitions without a repeated label.)
C22_ReappearanceIsRegression ==
    [][(WalkStep /\ DistinctLabels /\ CurEv.state \in DOMAIN order_map) =>
        /\ AppendedOfType("duplicate_state") # {}
               => PrevKnownState = Some(CurEv.state)
        /\ Reappears =>
               \A i \in 1..Len(Appended) : Appended[i].type = "regression"]_vars

\* C22 as amended: duplicate_state is emitted only when the state equals
\* that of the immediately preceding known-state event; a reappearing state
\* is judged by rank against that event like any changed state: one
\* regression when its rank is lower, one skipped_state when its rank is
\* more than one higher, nothing when it is exactly one higher.
C22_ReappearanceByRank ==
    [][(WalkStep /\ CurEv.state \in DOMAIN order_map) =>
        /\ AppendedOfType("duplicate_state") # {}
               => PrevKnownState = Some(CurEv.state)
        /\ Reappears =>
               LET rank == order_map[CurEv.state]
                   prev == order_map[PrevKnownState[1]]
               IN  AppendedTypes =
                       (IF rank < prev THEN <<"regression">>
                        ELSE IF rank > prev + 1 THEN <<"skipped_state">>
                        ELSE <<>>)]_vars

\* C22 witness: NEW, RUNNING, NEW under NEW>RUNNING>DONE: the second NEW is
\* reported as one regression and nothing else.
C22_Witness ==
    /\ WalkDone
    /\ ordered_states = <<"NEW", "RUNNING", "DONE">>
    /\ SortedStates = <<"NEW", "RUNNING", "NEW">>
    /\ Len(inconsistencies) = 1
    /\ inconsistencies[1].type = "regression"
    /\ inconsistencies[1].events = <<events_sorted[3]>>

\* The events of a list whose state has a rank, in the order of the list.
KnownOnly(events) ==
    LET Known(ev) == ev.state \in DOMAIN order_map
    IN  SelectSeq(events, Known)

\* The duplicate_state, regression and skipped_state entries of a list.
ProgressionOnly(list) ==
    LET Progression(inc) == inc.type \in ProgressionKinds
    IN  SelectSeq(list, Progression)

\* C23: the duplicate_state, regression and skipped_state inconsistencies
\* of an ID are those audit_id_sequence returns for the ID's events with
\* every unknown-state event removed: same kinds, messages, evidence events
\* and order.
C23_UnknownStatesInvisible ==
    WalkDone =>
        ProgressionOnly(inconsistencies) =
            audit_id_sequence(CurId, KnownOnly(CurEvents), order_map,
                              ordered_states, args.ignore_duplicates)

\* C23 witness: with the flag false, two events of one known state with
\* only an unknown-state event between them: the unknown_state is reported,
\* and the second known event is reported as a duplicate.
C23_Witness ==
    /\ WalkDone
    /\ ~args.ignore_duplicates
    /\ Len(events_sorted) = 3
    /\ events_sorted[1].state \in DOMAIN order_map
    /\ events_sorted[2].state \notin DOMAIN order_map
    /\ events_sorted[3].state = events_sorted[1].state
    /\ Len(inconsistencies) = 2
    /\ inconsistencies[1].type = "unknown_state"
    /\ inconsistencies[2].type = "duplicate_state"
    /\ inconsistencies[2].events = <<events_sorted[3]>>

\* ------------------------------------- properties: the IDs of the group
\* C24: every ID that is a key of the group has at least one retained
\* event, at every point of ingestion and for every setting of the two caps;
\* --max-ids counts only such IDs.
C24_EveryIdHasAnEvent ==
    \A i \in 1..Len(events_by_id) : events_by_id[i].events # <<>>

\* ---------------------------- properties: (last_order_idx, last_state)
\* last_order_idx and last_state are both unset, or are the state of the
\* most recent known-state event walked and that state's rank.
LastIsPrevKnown ==
    /\ last_order_idx = None <=> last_state = None
    /\ last_state = PrevKnownState
    /\ last_state # None => last_order_idx = Some(order_map[last_state[1]])

\* C25: at every point of the walk of an ID, last_rank is unset exactly when
\* last_state is; both start unset; once set, last_state is the state of
\* the most recent known-state event walked and last_rank its rank; and a
\* step of the walk never takes either back to unset.
C25_LastRankAndState ==
    [][pc' = "walk" =>
        /\ LastIsPrevKnown'
        /\ pc = "audit_all_ids" => (last_order_idx' = None /\ last_state' = None)
        /\ (WalkStep /\ last_state # None) =>
               (last_state' # None /\ last_order_idx' # None)]_vars

\* C25 witness: a known state, a different known state of lower rank and an
\* unknown state were walked; last_state and last_rank are those of the
\* second event.
C25_Witness ==
    /\ pc = "walk"
    /\ ev_idx = 4
    /\ events_sorted[1].state \in DOMAIN order_map
    /\ events_sorted[2].state \in DOMAIN order_map
    /\ events_sorted[3].state \notin DOMAIN order_map
    /\ order_map[events_sorted[2].state] < order_map[events_sorted[1].state]
    /\ last_state = Some(events_sorted[2].state)
    /\ last_order_idx = Some(order_map[events_sorted[2].state])

\* --------------------------------- properties: the order of the report
\* Where the first retained record of an ID stands among the lines read.
FirstLineOf(id) ==
    CHOOSE k \in 1..Len(consumed) :
        /\ consumed[k].source_file = EventsOf(events_by_id, id)[1].source_file
        /\ consumed[k].line_no = EventsOf(events_by_id, id)[1].line_no

\* Where an event stands in the audit order of its ID.
AuditIndex(ev) ==
    CHOOSE k \in 1..Len(EventsOf(events_by_id, ev.id_value)) :
        SortedByKey(EventsOf(events_by_id, ev.id_value))[k] = ev

\* C26: the list audit_all_ids returns is made of the per-ID results, one
\* ID after the other in the order in which ingestion first admitted the
\* IDs, and within an ID in the audit order of the evidence events.
C26_ReportOrder ==
    AuditDone =>
        /\ \A i \in 1..Len(events_by_id) :
               OfId(all_inconsistencies, events_by_id[i].key) =
                   audit_id_sequence(events_by_id[i].key,
                                     events_by_id[i].events, order_map,
                                     ordered_states, args.ignore_duplicates)
        /\ \A i, j \in 1..Len(all_inconsistencies) :
               i < j =>
                   LET a == all_inconsistencies[i]
                       b == all_inconsistencies[j]
                   IN  IF a.id_value = b.id_value
                       THEN AuditIndex(a.events[1]) < AuditIndex(b.events[1])
                       ELSE FirstLineOf(a.id_value) < FirstLineOf(b.id_value)

\* C26 witness: xyz was admitted before abc, both have an inconsistency,
\* and the report lists that of xyz first.
C26_Witness ==
    /\ AuditDone
    /\ Keys(events_by_id) = <<"xyz", "abc">>
    /\ Len(all_inconsistencies) = 2
    /\ all_inconsistencies[1].id_value = "xyz"
    /\ all_inconsistencies[2].id_value = "abc"
    /\ FirstLineOf("xyz") < FirstLineOf("abc")

====
